---------------------------- MODULE Spec2Model ----------------------------
(***************************************************************************)
(* Model of the CO2 monitor USB session (src/co2-monitor.js): the          *)
(* CO2Monitor class with its connect / transfer / disconnect methods, the  *)
(* completion callbacks it hands to the usb library, the 'data' and        *)
(* 'error' listeners it installs on the endpoint, and the frame cipher     *)
(* _decrypt.                                                               *)
(*                                                                         *)
(* Bytes are naturals in 0..255 and a frame is a function over 0..7, so    *)
(* the indices are the indices of the source.  Temperatures and humidity   *)
(* are kept in hundredths (7.10 is 710).  A JavaScript value that may be   *)
(* absent is a tuple: <<>> is null, <<"undefined">> is undefined, <<v>> is *)
(* the number v, <<"Interface", g>> the interface object created by the    *)
(* g-th device.open().                                                     *)
(*                                                                         *)
(* What the model takes from the libraries the source calls:               *)
(*  - events: emit('error', err) throws err when the emitter has no        *)
(*    listener for 'error'; emit runs the listeners of an event in order.  *)
(*  - usb: findByIds returns undefined when no device matches; open()      *)
(*    creates the interface and endpoint objects anew; controlTransfer,    *)
(*    transfer, stopPoll and release complete later through their          *)
(*    callback, the first, second and fourth possibly with an error;       *)
(*    attachKernelDriver has no callback and throws when it fails;         *)
(*    startPoll throws on an endpoint that is polling and stopPoll on one  *)
(*    that is not; close() ends all polling.                               *)
(*  - a method call on null or undefined throws a TypeError.               *)
(***************************************************************************)
EXTENDS Integers, Sequences, FiniteSets, TLC

(***************************************************************************)
(* Bound of the model: the number of calls of connect(), transfer() and    *)
(* disconnect() in a run.  Frames and poll errors are not counted.         *)
(***************************************************************************)
MaxCalls == 4

(***************************************************************************)
(* Bit arithmetic on naturals, as JavaScript's ^, |, <<, >> and & 0xff.    *)
(***************************************************************************)
RECURSIVE Pow2(_)
Pow2(n) == IF n = 0 THEN 1 ELSE 2 * Pow2(n - 1)

RECURSIVE BitXor(_, _)
BitXor(a, b) ==
    IF a = 0 /\ b = 0 THEN 0
    ELSE 2 * BitXor(a \div 2, b \div 2) + (IF a % 2 = b % 2 THEN 0 ELSE 1)

RECURSIVE BitOr(_, _)
BitOr(a, b) ==
    IF a = 0 /\ b = 0 THEN 0
    ELSE 2 * BitOr(a \div 2, b \div 2) + (IF a % 2 = 1 \/ b % 2 = 1 THEN 1 ELSE 0)

Shr(a, n) == a \div Pow2(n)
Shl(a, n) == a * Pow2(n)
Byte(a) == a % 256

(***************************************************************************)
(* The frame cipher.                                                       *)
(***************************************************************************)
Idx == 0 .. 7

\* this._key, the buffer sent in the handshake and used by _decrypt
_key == [i \in Idx |-> <<196, 198, 192, 146, 64, 35, 220, 150>>[i + 1]]

cstate == [i \in Idx |-> <<72, 116, 101, 109, 112, 57, 57, 101>>[i + 1]]

shuffle == [i \in Idx |-> <<2, 4, 0, 7, 1, 6, 5, 3>>[i + 1]]

\* dataXor[shuffle[i]] = data[i] ^ key[shuffle[i]]; a byte the buffer does
\* not have reads as undefined, which ^ takes as 0
dataXor(key, data) ==
    [idx \in Idx |->
        LET i == CHOOSE j \in Idx : shuffle[j] = idx
        IN  BitXor(IF i \in DOMAIN data THEN data[i] ELSE 0, key[idx])]

\* dataTmp[i] = ((dataXor[i] >> 3) | (dataXor[(i - 1 + 8) % 8] << 5)) & 0xff
dataTmp(x) ==
    [i \in Idx |-> Byte(BitOr(Shr(x[i], 3), Shl(x[(i - 1 + 8) % 8], 5)))]

\* ctmp = ((cstate[i] >> 4) | (cstate[i] << 4)) & 0xff
ctmp(i) == Byte(BitOr(Shr(cstate[i], 4), Shl(cstate[i], 4)))

\* _decrypt with the constants subtracted as they are, not nibble-swapped
_decryptNoSwap(key, data) ==
    LET t == dataTmp(dataXor(key, data))
    IN  [i \in Idx |-> Byte(256 + t[i] - cstate[i])]

\* results[i] = (0x100 + dataTmp[i] - ctmp) & 0xff
_decrypt(key, data) ==
    LET t == dataTmp(dataXor(key, data))
    IN  [i \in Idx |-> Byte(256 + t[i] - ctmp(i))]


(***************************************************************************)
(* The 'data' listener, as functions of the raw frame.                     *)
(***************************************************************************)
null == <<>>
undefined == <<"undefined">>

\* line 121 without the plaintext bypass
DecryptedAlways(data) == _decrypt(_key, data)

\* const decrypted = data[4] != 0x0d ? CO2Monitor._decrypt(this._key, data) : data
Decrypted(data) == IF data[4] # 13 THEN _decrypt(_key, data) ELSE data

\* sum = decrypted.slice(0, 3).reduce((s, item) => (s + item), 0) & 0xff
Sum(decrypted) == Byte(decrypted[0] + decrypted[1] + decrypted[2])

\* the test of line 126 without the marker
ValidNoMarker(decrypted) == ~(decrypted[3] # Sum(decrypted))

\* the test of line 126 without the checksum
ValidNoChecksum(decrypted) == ~(decrypted[4] # 13)

\* the frame passes the test of line 126
Valid(decrypted) == ~(decrypted[4] # 13 \/ decrypted[3] # Sum(decrypted))

\* const value = decrypted[1] << 8 | decrypted[2]
Value(decrypted) == BitOr(Shl(decrypted[1], 8), decrypted[2])

\* the conversion with 273 for 273.15
TemperatureWholeKelvin(value) == (value * 625 - 2730000) \div 100

\* parseFloat((value / 16 - 273.15).toFixed(2)), in hundredths.  value / 16
\* is exact and 273.15 is the double just below 273.15, so an exact tie
\* (value % 4 = 2) goes up while the difference keeps the excess (below
\* 1024, that is value < 20758) and down above.
Temperature(value) ==
    LET e == value * 625 - 2731500
        fl == e \div 100
        r == e % 100
    IN  IF r < 50 THEN fl
        ELSE IF r > 50 THEN fl + 1
        ELSE IF value < 20758 THEN fl + 1 ELSE fl

\* parseFloat(value / 100), in hundredths
Humidity(value) == value

\* the opcode switch with the default case falling into the CO2 case
ReadingOfDefaultCo2(decrypted) ==
    LET op == decrypted[0]
        value == Value(decrypted)
    IN  IF op = 66 THEN <<"temp", Temperature(value)>>
        ELSE IF op = 65 THEN <<"hum", Humidity(value)>>
        ELSE <<"co2", value>>

\* the event the opcode switch emits for a valid frame, if any
ReadingOf(decrypted) ==
    LET op == decrypted[0]
        value == Value(decrypted)
    IN  IF op = 66 THEN <<"temp", Temperature(value)>>
        ELSE IF op = 80 THEN <<"co2", value>>
        ELSE IF op = 65 THEN <<"hum", Humidity(value)>>
        ELSE null

(***************************************************************************)
(* The frames the endpoint delivers in the model.  PlainFrames have each   *)
(* opcode, two values, a good or a bad checksum and the marker 0x0D in     *)
(* byte 4, and two have the byte 0x0C there.  CipherFrames are raw frames  *)
(* of the legacy firmware, which decrypt to                                *)
(*   42 11 94 E7 0D, 50 02 58 AA 0D, 41 13 24 78 0D (valid),               *)
(*   50 02 58 AB 0D (bad checksum), 6D 00 01 6E 0D (valid, other opcode),  *)
(*   50 02 58 AA 0C (good checksum, wrong marker), 42 11 A4 F7 0D (valid)  *)
(* and the all-zero frame, which decrypts to 54 51 82 3C 41 71 E8 3C.      *)
(***************************************************************************)
Frame(b) == [i \in Idx |-> b[i + 1]]

Opcodes == {66, 80, 65, 109}
Values == {4500, 600}

PlainFrame(o, v, bad, marker) ==
    Frame(<<o, v \div 256, v % 256,
            Byte(o + (v \div 256) + (v % 256) + (IF bad THEN 1 ELSE 0)),
            marker, 0, 0, 0>>)

PlainFrames ==
    { PlainFrame(o, v, bad, 13) : o \in Opcodes, v \in Values, bad \in BOOLEAN }
        \cup { PlainFrame(80, 600, bad, 12) : bad \in BOOLEAN }

ZeroFrame == Frame(<<0, 0, 0, 0, 0, 0, 0, 0>>)

CipherFrames ==
    { Frame(<<149, 228, 246, 32, 1, 70, 191, 122>>),
      Frame(<<180, 228, 102, 32, 139, 70, 191, 146>>),
      Frame(<<18, 228, 238, 32, 21, 70, 191, 226>>),
      Frame(<<180, 228, 102, 32, 139, 70, 191, 154>>),
      Frame(<<122, 228, 78, 33, 252, 70, 191, 178>>),
      Frame(<<180, 220, 102, 32, 139, 70, 191, 146>>),
      Frame(<<22, 228, 246, 32, 1, 70, 191, 250>>),
      ZeroFrame }

\* a completed read of any length, as the buffer the listener is given
Buffer(b) == [i \in 0 .. Len(b) - 1 |-> b[i + 1]]

\* reads of 5 and of 9 bytes: plaintext ones with a good and with a bad
\* checksum, and the first of CipherFrames cut short and with a byte more
OddReads ==
    { Buffer(<<66, 17, 148, 231, 13>>),
      Buffer(<<66, 17, 148, 232, 13>>),
      Buffer(<<80, 2, 88, 170, 13, 0, 0, 0, 0>>),
      Buffer(<<149, 228, 246, 32, 1>>),
      Buffer(<<149, 228, 246, 32, 1, 70, 191, 122, 0>>) }

Frames == PlainFrames \cup CipherFrames \cup OddReads

\* the frames of the session model: a plaintext temperature frame, an
\* encrypted one with another value, a CO2 frame, and a frame with a bad
\* checksum
SessionFrames ==
    { PlainFrame(66, 4500, FALSE, 13),
      Frame(<<22, 228, 246, 32, 1, 70, 191, 250>>),
      PlainFrame(80, 600, FALSE, 13),
      PlainFrame(80, 600, TRUE, 13) }

(***************************************************************************)
(* State.                                                                  *)
(***************************************************************************)
VARIABLES
    _device, _interface, _endpoint,  \* the session's handles
    _temp, _co2, _hum,               \* the cached readings
    errListener,    \* the session has a listener for 'error'
    hasConnected,   \* a connect() of the session has succeeded
    linux,          \* os.platform() === 'linux'
    hasInterface,   \* the device has an interface 0
    kernelActive,   \* the kernel driver is bound to interface 0
    calls,          \* number of calls of the three methods so far
    opens,          \* number of device.open() calls so far
    isOpen,         \* the device is open
    claimed,        \* interface 0 is claimed
    polling,        \* per endpoint object: "idle", "active" or "stopping"
    handlers,       \* per endpoint object: number of 'data' (and 'error') listeners
    stopCbs,        \* per endpoint object: pending stopPoll callbacks
    pendControl,    \* pending control transfers, each with the state at its connect()
    pendTransfer,   \* pending initial reads of transfer()
    pendRelease,    \* pending interface releases
    op,             \* the handler that ran last
    emitted,        \* the events it emitted on the session, in order
    cb,             \* the calls it made of the caller's callback, in order
    threw,          \* the exception that escaped it, or null
    data,           \* the raw frame it handled, or null
    decrypted,      \* the bytes it validated and decoded, or null
    pre,            \* for the callback of controlTransfer: the state before its connect()
    did,            \* the calls it made of the usb library and of the endpoint, in order
    detached,       \* the last connect() detached the kernel driver
    seen            \* the opcodes of the frames accepted so far

\* the temperature accessor reading the CO2 field
temperatureOfCo2 == _co2

\* get temperature(), get co2(), get humidity()
temperature == _temp
co2 == _co2
humidity == _hum

session == <<_device, _interface, _endpoint>>
readings == <<_temp, _co2, _hum>>
env == <<linux, hasInterface>>
usbState == <<kernelActive, opens, isOpen, claimed, polling, handlers, stopCbs>>
pending == <<pendControl, pendTransfer, pendRelease>>
last == <<op, emitted, cb, threw, data, decrypted, pre, did>>
history == <<detached, seen>>
vars == <<calls, session, readings, errListener, hasConnected, env, usbState,
          pending, last, history>>

Gens == 1 .. MaxCalls

Device == <<"Device">>
Interface(g) == <<"Interface", g>>
Endpoint(g) == <<"Endpoint", g>>
IsObject(h) == h # null /\ h # undefined
Gen(h) == h[2]

\* the handles and the resources a connect() acquires
Snap ==
    [device |-> _device, interface |-> _interface, endpoint |-> _endpoint,
     isOpen |-> isOpen, kernelActive |-> kernelActive, claimed |-> claimed]

Done(o, ev, c, t, p, d) ==
    /\ did' = d
    /\ op' = o
    /\ emitted' = ev
    /\ cb' = c
    /\ threw' = t
    /\ data' = null
    /\ decrypted' = null
    /\ pre' = p

\* the same for the 'data' listener, which has no callback
DoneData(ev, t, f, dec) ==
    /\ did' = <<>>
    /\ op' = "data"
    /\ emitted' = ev
    /\ cb' = <<>>
    /\ threw' = t
    /\ data' = f
    /\ decrypted' = dec
    /\ pre' = null

Error(msg) == <<"error", msg>>

TypeError == <<"TypeError">>

\* this.emit('error', err); return callback(err);
\* emit throws err when the emitter has no 'error' listener
Fail(o, msg, p, d) ==
    IF errListener
    THEN Done(o, <<Error(msg)>>, <<"err">>, null, p, d)
    ELSE Done(o, <<Error(msg)>>, <<>>, <<msg>>, p, d)

Init ==
    /\ _device = null
    /\ _interface = null
    /\ _endpoint = null
    /\ _co2 = null
    /\ _temp = null
    /\ _hum = null
    /\ errListener = FALSE
    /\ hasConnected = FALSE
    /\ linux \in BOOLEAN
    /\ hasInterface \in BOOLEAN
    /\ kernelActive \in (IF linux THEN BOOLEAN ELSE {FALSE})
    /\ opens = 0
    /\ calls = 0
    /\ isOpen = FALSE
    /\ claimed = FALSE
    /\ polling = [g \in Gens |-> "idle"]
    /\ handlers = [g \in Gens |-> 0]
    /\ stopCbs = [g \in Gens |-> 0]
    /\ pendControl = <<>>
    /\ pendTransfer = 0
    /\ pendRelease = 0
    /\ op = "new"
    /\ emitted = <<>>
    /\ cb = <<>>
    /\ threw = null
    /\ data = null
    /\ decrypted = null
    /\ pre = null
    /\ did = <<>>
    /\ detached = FALSE
    /\ seen = {}

(***************************************************************************)
(* The methods of the session and the callbacks they register.  Each       *)
(* action is one run of one function of the source, up to its return or    *)
(* to the exception that leaves it.                                        *)
(***************************************************************************)

\* connect(callback), up to the call of controlTransfer; found: a device
\* with the configured vid/pid is attached
Connect(found) ==
    /\ calls < MaxCalls
    /\ calls' = calls + 1
    /\ UNCHANGED <<_endpoint, readings, errListener, hasConnected, env, claimed, polling,
                   handlers, stopCbs, pendTransfer, pendRelease, seen>>
    /\ detached' = (found /\ hasInterface /\ linux /\ kernelActive)
    /\ IF ~found
       THEN \* usb.findByIds finds nothing
            /\ _device' = undefined
            /\ Fail("connect", "Device not found!", null, <<"findByIds">>)
            /\ UNCHANGED <<_interface, kernelActive, opens, isOpen, pendControl>>
       ELSE /\ _device' = Device
            /\ isOpen' = TRUE
            /\ opens' = opens + 1
            /\ _interface' = IF hasInterface THEN Interface(opens + 1) ELSE undefined
            /\ IF linux /\ ~hasInterface
               THEN \* undefined.isKernelDriverActive()
                    /\ Done("connect", <<>>, <<>>, TypeError, null,
                            <<"findByIds", "open">>)
                    /\ UNCHANGED <<kernelActive, pendControl>>
               ELSE IF ~hasInterface
               THEN /\ Fail("connect", "Interface not found!", null,
                            <<"findByIds", "open">>)
                    /\ UNCHANGED <<kernelActive, pendControl>>
               ELSE /\ kernelActive' = (IF linux /\ kernelActive THEN FALSE ELSE kernelActive)
                    /\ pendControl' = Append(pendControl, Snap)
                    /\ Done("connect", <<>>, <<>>, null, null,
                            <<"findByIds", "open">>
                                \o (IF linux THEN <<"isKernelDriverActive">> ELSE <<>>)
                                \o (IF linux /\ kernelActive
                                    THEN <<"detachKernelDriver">> ELSE <<>>)
                                \o <<"controlTransfer">>)

\* the callback of controlTransfer
ControlTransferDone(err) ==
    /\ UNCHANGED calls
    /\ pendControl # <<>>
    /\ pendControl' = Tail(pendControl)
    /\ UNCHANGED <<_device, _interface, readings, errListener, env, kernelActive,
                   opens, isOpen, polling, handlers, stopCbs, pendTransfer,
                   pendRelease, history>>
    /\ IF err
       THEN /\ Fail("controlTransfer", "control transfer failed", Head(pendControl),
                    <<>>)
            /\ UNCHANGED <<_endpoint, claimed, hasConnected>>
       ELSE IF ~IsObject(_interface)
       THEN /\ Done("controlTransfer", <<>>, <<>>, TypeError, Head(pendControl),
                    <<>>)
            /\ UNCHANGED <<_endpoint, claimed, hasConnected>>
       ELSE /\ claimed' = TRUE
            /\ hasConnected' = TRUE
            /\ _endpoint' = Endpoint(Gen(_interface))
            /\ Done("controlTransfer", << <<"connect", _endpoint'>> >>, <<"ok">>,
                    null, Head(pendControl), <<"claim">>)

\* transfer() whose read is queued whether or not there is an endpoint
TransferUnchecked ==
    /\ calls < MaxCalls
    /\ calls' = calls + 1
    /\ UNCHANGED <<session, readings, errListener, hasConnected, env, usbState,
                   pendControl, pendRelease, history>>
    /\ pendTransfer' = pendTransfer + 1
    /\ Done("transfer", <<>>, <<>>, null, null, <<"transfer">>)

\* transfer(callback), up to the call of this._endpoint.transfer
Transfer ==
    /\ calls < MaxCalls
    /\ calls' = calls + 1
    /\ UNCHANGED <<session, readings, errListener, hasConnected, env, usbState, pendControl,
                   pendRelease, history>>
    /\ IF ~IsObject(_endpoint)
       THEN /\ Done("transfer", <<>>, <<>>, TypeError, null, <<>>)
            /\ UNCHANGED pendTransfer
       ELSE /\ pendTransfer' = pendTransfer + 1
            /\ Done("transfer", <<>>, <<>>, null, null, <<"transfer">>)

\* the callback of the initial read of transfer(); startPoll throws when
\* the endpoint is already polling
TransferDone(err) ==
    /\ UNCHANGED calls
    /\ pendTransfer > 0
    /\ pendTransfer' = pendTransfer - 1
    /\ err \/ isOpen
    /\ UNCHANGED <<session, readings, errListener, hasConnected, env, kernelActive, opens,
                   isOpen, claimed, stopCbs, pendControl, pendRelease, history>>
    /\ IF err
       THEN /\ Fail("transferDone", "transfer failed", null, <<>>)
            /\ UNCHANGED <<polling, handlers>>
       ELSE IF ~IsObject(_endpoint)
       THEN /\ Done("transferDone", <<>>, <<>>, TypeError, null, <<>>)
            /\ UNCHANGED <<polling, handlers>>
       ELSE IF polling[Gen(_endpoint)] # "idle"
       THEN /\ Done("transferDone", <<>>, <<>>, <<"Polling already active">>, null,
                    <<"startPoll">>)
            /\ UNCHANGED <<polling, handlers>>
       ELSE /\ polling' = [polling EXCEPT ![Gen(_endpoint)] = "active"]
            /\ handlers' = [handlers EXCEPT ![Gen(_endpoint)] = @ + 1]
            /\ Done("transferDone", <<>>, <<"ok">>, null, null,
                    <<"startPoll", "on", "on">>)

\* the 'data' listener of line 119 on frame f, run by each 'data' listener
\* the endpoint has
Data(g, f) ==
    /\ UNCHANGED calls
    /\ isOpen
    /\ polling[g] = "active"
    /\ handlers[g] > 0
    /\ UNCHANGED <<session, errListener, hasConnected, env, usbState, pending, detached>>
    /\ LET dec == Decrypted(f)
           r == ReadingOf(dec)
       IN  IF ~Valid(dec)
           THEN /\ UNCHANGED <<readings, seen>>
                /\ IF errListener
                   THEN DoneData([i \in 1 .. handlers[g] |-> Error("Checksum Error.")],
                                 null, f, dec)
                   ELSE DoneData(<<Error("Checksum Error.")>>,
                                 <<"Checksum Error.">>, f, dec)
           ELSE /\ _temp' = (IF dec[0] = 66 THEN <<r[2]>> ELSE _temp)
                /\ _co2' = (IF dec[0] = 80 THEN <<r[2]>> ELSE _co2)
                /\ _hum' = (IF dec[0] = 65 THEN <<r[2]>> ELSE _hum)
                /\ seen' = seen \cup {dec[0]}
                /\ DoneData(IF r = null THEN <<>> ELSE [i \in 1 .. handlers[g] |-> r],
                            null, f, dec)

\* the endpoint's 'error' listener of line 155, run by each listener
PollError(g) ==
    /\ UNCHANGED calls
    /\ isOpen
    /\ polling[g] = "active"
    /\ handlers[g] > 0
    /\ UNCHANGED <<session, readings, errListener, hasConnected, env, usbState, pending,
                   history>>
    /\ IF errListener
       THEN Done("pollError", [i \in 1 .. handlers[g] |-> Error("poll failed")],
                 <<>>, null, null, <<>>)
       ELSE Done("pollError", <<Error("poll failed")>>,
                 <<>>, <<"poll failed">>, null, <<>>)

\* disconnect() that releases the interface without waiting for stopPoll
DisconnectNoWait ==
    /\ calls < MaxCalls
    /\ calls' = calls + 1
    /\ UNCHANGED <<session, readings, errListener, hasConnected, env, kernelActive, opens,
                   isOpen, claimed, handlers, pendControl, pendTransfer, history>>
    /\ IF ~IsObject(_endpoint)
       THEN /\ Done("disconnect", <<>>, <<>>, TypeError, null, <<>>)
            /\ UNCHANGED <<polling, stopCbs, pendRelease>>
       ELSE IF polling[Gen(_endpoint)] = "idle"
       THEN /\ Done("disconnect", <<>>, <<>>, <<"Polling is not active.">>, null,
                    <<"stopPoll">>)
            /\ UNCHANGED <<polling, stopCbs, pendRelease>>
       ELSE /\ polling' = [polling EXCEPT ![Gen(_endpoint)] = "stopping"]
            /\ stopCbs' = [stopCbs EXCEPT ![Gen(_endpoint)] = @ + 1]
            /\ pendRelease' = pendRelease + 1
            /\ Done("disconnect", <<>>, <<>>, null, null, <<"stopPoll", "release">>)

\* disconnect(callback), up to the call of stopPoll; stopPoll throws when
\* the endpoint is not polling
Disconnect ==
    /\ calls < MaxCalls
    /\ calls' = calls + 1
    /\ UNCHANGED <<session, readings, errListener, hasConnected, env, kernelActive, opens,
                   isOpen, claimed, handlers, pending, history>>
    /\ IF ~IsObject(_endpoint)
       THEN /\ Done("disconnect", <<>>, <<>>, TypeError, null, <<>>)
            /\ UNCHANGED <<polling, stopCbs>>
       ELSE IF polling[Gen(_endpoint)] = "idle"
       THEN /\ Done("disconnect", <<>>, <<>>, <<"Polling is not active.">>, null,
                    <<"stopPoll">>)
            /\ UNCHANGED <<polling, stopCbs>>
       ELSE /\ polling' = [polling EXCEPT ![Gen(_endpoint)] = "stopping"]
            /\ stopCbs' = [stopCbs EXCEPT ![Gen(_endpoint)] = @ + 1]
            /\ Done("disconnect", <<>>, <<>>, null, null, <<"stopPoll">>)

\* the callback of stopPoll; attachKernelDriver throws when it fails
StopPollDone(g, attachFails) ==
    /\ UNCHANGED calls
    /\ stopCbs[g] > 0
    /\ attachFails => linux
    /\ stopCbs' = [stopCbs EXCEPT ![g] = @ - 1]
    /\ polling' = [polling EXCEPT ![g] = "idle"]
    /\ UNCHANGED <<session, readings, errListener, hasConnected, env, opens, isOpen, claimed,
                   handlers, pendControl, pendTransfer, history>>
    /\ IF ~IsObject(_interface)
       THEN /\ Done("stopPollDone", <<>>, <<>>, TypeError, null, <<>>)
            /\ UNCHANGED <<kernelActive, pendRelease>>
       ELSE IF attachFails
       THEN /\ Done("stopPollDone", <<>>, <<>>, <<"attach failed">>, null,
                    <<"attachKernelDriver">>)
            /\ UNCHANGED <<kernelActive, pendRelease>>
       ELSE /\ kernelActive' = (IF linux THEN TRUE ELSE kernelActive)
            /\ pendRelease' = pendRelease + 1
            /\ Done("stopPollDone", <<>>, <<>>, null, null,
                    (IF linux THEN <<"attachKernelDriver">> ELSE <<>>)
                        \o <<"release">>)

\* the callback of release
ReleaseDone(err) ==
    /\ UNCHANGED calls
    /\ pendRelease > 0
    /\ pendRelease' = pendRelease - 1
    /\ UNCHANGED <<session, readings, errListener, hasConnected, env, kernelActive, opens,
                   handlers, pendControl, pendTransfer, history>>
    /\ IF err /\ ~errListener
       THEN /\ Done("releaseDone", <<Error("release failed")>>, <<>>,
                    <<"release failed">>, null, <<>>)
            /\ UNCHANGED <<isOpen, claimed, polling, stopCbs>>
       ELSE IF ~IsObject(_device)
       THEN /\ Done("releaseDone",
                    IF err THEN <<Error("release failed")>> ELSE <<>>,
                    <<>>, TypeError, null, <<>>)
            /\ claimed' = (err /\ claimed)
            /\ UNCHANGED <<isOpen, polling, stopCbs>>
       ELSE /\ isOpen' = FALSE
            /\ claimed' = FALSE
            /\ polling' = [g \in Gens |-> "idle"]
            /\ stopCbs' = [g \in Gens |-> 0]
            /\ Done("releaseDone",
                    (IF err THEN <<Error("release failed")>> ELSE <<>>)
                        \o << <<"disconnect">> >>,
                    <<IF err THEN "err" ELSE "ok">>, null, null, <<"close">>)

(***************************************************************************)
(* The caller.                                                             *)
(***************************************************************************)

\* monitor.on('error', ...)
OnError ==
    /\ UNCHANGED calls
    /\ ~errListener
    /\ errListener' = TRUE
    /\ Done("on", <<>>, <<>>, null, null, <<>>)
    /\ UNCHANGED <<session, readings, hasConnected, env, usbState, pending, history>>

Next ==
    \/ \E found \in BOOLEAN : Connect(found)
    \/ \E err \in BOOLEAN : ControlTransferDone(err)
    \/ Transfer
    \/ \E err \in BOOLEAN : TransferDone(err)
    \/ \E g \in Gens, f \in SessionFrames : Data(g, f)
    \/ \E g \in Gens : PollError(g)
    \/ Disconnect
    \/ \E g \in Gens, attachFails \in BOOLEAN : StopPollDone(g, attachFails)
    \/ \E err \in BOOLEAN : ReleaseDone(err)
    \/ OnError

Spec == Init /\ [][Next]_vars

(***************************************************************************)
(* The decode pipeline alone: a session that has connected and on which    *)
(* transfer() has succeeded once, fed every frame of Frames.               *)
(***************************************************************************)
InitPolling ==
    /\ calls = 2
    /\ _device = Device
    /\ _interface = Interface(1)
    /\ _endpoint = Endpoint(1)
    /\ _co2 = null
    /\ _temp = null
    /\ _hum = null
    /\ errListener = FALSE
    /\ hasConnected = TRUE
    /\ linux = TRUE
    /\ hasInterface = TRUE
    /\ kernelActive = FALSE
    /\ opens = 1
    /\ isOpen = TRUE
    /\ claimed = TRUE
    /\ polling = [g \in Gens |-> IF g = 1 THEN "active" ELSE "idle"]
    /\ handlers = [g \in Gens |-> IF g = 1 THEN 1 ELSE 0]
    /\ stopCbs = [g \in Gens |-> 0]
    /\ pendControl = <<>>
    /\ pendTransfer = 0
    /\ pendRelease = 0
    /\ op = "transferDone"
    /\ emitted = <<>>
    /\ cb = <<"ok">>
    /\ threw = null
    /\ data = null
    /\ decrypted = null
    /\ pre = null
    /\ did = <<"startPoll", "on", "on">>
    /\ detached = FALSE
    /\ seen = {}

NextFrames ==
    \/ \E g \in Gens, f \in Frames : Data(g, f)
    \/ \E g \in Gens : PollError(g)
    \/ OnError

SpecFrames == InitPolling /\ [][NextFrames]_vars

\* InitPolling is a state of the session: Spec reaches it on linux, which
\* TLC shows by finding this invariant violated under Spec
NeverPolling == ~InitPolling

(***************************************************************************)
(* Properties.                                                             *)
(***************************************************************************)
IsError(e) == e[1] = "error"
Rejected == emitted # <<>> /\ \A i \in 1 .. Len(emitted) : IsError(emitted[i])
Accepted == \A i \in 1 .. Len(emitted) : ~IsError(emitted[i])
ChecksumOf(b) == (b[0] + b[1] + b[2]) % 256
Emits(name) == \E i \in 1 .. Len(emitted) : emitted[i][1] = name
NoPolling == \A g \in Gens : polling[g] = "idle"

C3_OneReadingPerFrame ==
    [][(op' = "data" /\ decrypted'[4] = 13 /\ decrypted'[3] = ChecksumOf(decrypted')
            /\ \A g \in Gens : handlers[g] <= 1)
        => LET o == decrypted'[0]
           IN  /\ o = 66 => /\ Len(emitted') = 1 /\ emitted'[1][1] = "temp"
                            /\ _temp' = <<emitted'[1][2]>>
                            /\ _co2' = _co2 /\ _hum' = _hum
               /\ o = 80 => /\ Len(emitted') = 1 /\ emitted'[1][1] = "co2"
                            /\ _co2' = <<emitted'[1][2]>>
                            /\ _temp' = _temp /\ _hum' = _hum
               /\ o = 65 => /\ Len(emitted') = 1 /\ emitted'[1][1] = "hum"
                            /\ _hum' = <<emitted'[1][2]>>
                            /\ _temp' = _temp /\ _co2' = _co2
               /\ o \notin {66, 80, 65} => emitted' = <<>> /\ readings' = readings]_vars

C3_Witness ==
    /\ op = "data"
    /\ decrypted[0] = 65
    /\ emitted = << <<"hum", 600>> >>
    /\ _hum = <<600>>
    /\ _temp = <<810>>
    /\ _co2 = <<4500>>

\* C4: transfer() on a session on which no connect() has succeeded fails
\* (an exception leaves it) or has no effect; it starts no read and no
\* polling, and emits no 'connect' event.
C4_TransferBeforeConnect ==
    (op = "transfer" /\ ~hasConnected) =>
        /\ threw # null \/ (emitted = <<>> /\ cb = <<>>)
        /\ pendTransfer = 0
        /\ NoPolling
        /\ ~Emits("connect")
        /\ _endpoint = null

C4_Witness ==
    /\ op = "transfer"
    /\ ~hasConnected
    /\ threw = TypeError
    /\ isOpen

\* C5: disconnect() on a session that was never connected (no device, no
\* interface, no endpoint) raises no exception.
C5_DisconnectNeverConnected ==
    (op = "disconnect" /\ ~IsObject(_device) /\ ~IsObject(_interface)
        /\ ~IsObject(_endpoint)) => threw = null

\* C6: when reattaching the kernel driver fails in disconnect(), the
\* release of the interface is still attempted.
C6_TeardownContinuesAfterAttachFailure ==
    (op = "stopPollDone" /\ threw = <<"attach failed">>) => pendRelease > 0

SameHandle(a, b) == (IsObject(a) \/ IsObject(b)) => a = b

\* C7: when no attached device matches, connect() emits the error and calls
\* the callback with it, emits no 'connect' event, and the session is in
\* the state it was in before the call.
C7_DeviceNotFound ==
    [][(op' = "connect" /\ emitted' = <<Error("Device not found!")>>)
        => /\ cb' = <<"err">>
           /\ threw' = null
           /\ SameHandle(_device', _device)
           /\ _interface' = _interface
           /\ _endpoint' = _endpoint
           /\ isOpen' = isOpen]_vars

\* C8: when the handshake fails, connect() emits the error and calls the
\* callback with it, emits no 'connect' event, claims nothing, sets no
\* endpoint, and leaves the device, the interface and the kernel driver as
\* they were before the call.
C8_HandshakeFailed ==
    (op = "controlTransfer" /\ emitted = <<Error("control transfer failed")>>)
        => /\ cb = <<"err">>
           /\ _endpoint = pre.endpoint
           /\ claimed = pre.claimed
           /\ isOpen = pre.isOpen
           /\ SameHandle(_device, pre.device)
           /\ SameHandle(_interface, pre.interface)
           /\ kernelActive = pre.kernelActive

C10_ExampleVector ==
    (op = "data" /\ data[4] # 13) =>
        /\ \A i \in Idx : decrypted[i] \in 0 .. 255
        /\ data = ZeroFrame
            => decrypted = Frame(<<84, 81, 130, 60, 65, 113, 232, 60>>)

C10_Witness ==
    /\ op = "data"
    /\ data = ZeroFrame
    /\ decrypted[0] = 84
    /\ decrypted[7] = 60

\* C11 as stated: an accepted frame with opcode 0x42 and value 0x1194
\* (4500) yields the temperature 7.10.
C11_Temperature710 ==
    (op = "data" /\ Accepted /\ decrypted[4] = 13 /\ decrypted[0] = 66
        /\ decrypted[1] * 256 + decrypted[2] = 4500) => _temp = <<710>>

\* C11: an accepted frame with opcode 0x42 and value 0x1194 (4500,
\* byte 1 * 256 + byte 2) yields the temperature 8.10, which is
\* 4500 / 16 - 273.15 rounded to two decimals.
C11_Temperature810 ==
    (op = "data" /\ Accepted /\ decrypted[4] = 13 /\ decrypted[0] = 66
        /\ decrypted[1] * 256 + decrypted[2] = 4500)
        => _temp = <<810>> /\ emitted = << <<"temp", 810>> >>

C11_Witness ==
    /\ op = "data"
    /\ decrypted[0] = 66
    /\ decrypted[1] = 17
    /\ decrypted[2] = 148
    /\ data[4] # 13
    /\ _temp = <<810>>

\* C12: when the device that connect() opened has no interface 0, connect()
\* emits the error "Interface not found!" and passes it to the callback,
\* no exception escapes it and no 'connect' event is emitted, on linux as
\* elsewhere.
C12_InterfaceNotFound ==
    (op = "connect" /\ _device = Device /\ ~hasInterface /\ errListener)
        => /\ emitted = <<Error("Interface not found!")>>
           /\ cb = <<"err">>
           /\ threw = null

\* the last handler was the 'data' listener and it accepted a frame with
\* opcode o
AcceptedOpcode(o) ==
    op = "data" /\ decrypted[4] = 13 /\ decrypted[3] = ChecksumOf(decrypted)
        /\ decrypted[0] = o

C13_NullUntilAccepted ==
    /\ temperature = null <=> 66 \notin seen
    /\ co2 = null <=> 80 \notin seen
    /\ humidity = null <=> 65 \notin seen

C13_LatestAccepted ==
    /\ temperature' = IF AcceptedOpcode(66)'
                      THEN <<Temperature(decrypted'[1] * 256 + decrypted'[2])>>
                      ELSE temperature
    /\ co2' = IF AcceptedOpcode(80)'
              THEN <<decrypted'[1] * 256 + decrypted'[2]>>
              ELSE co2
    /\ humidity' = IF AcceptedOpcode(65)'
                   THEN <<decrypted'[1] * 256 + decrypted'[2]>>
                   ELSE humidity

\* C13: after every step each accessor (temperature, co2, humidity) is null
\* exactly if no frame of its kind has been accepted, as it is in a new
\* session, and a step changes what it returns only by accepting a frame
\* of its kind, to the value decoded from that frame; connect(),
\* transfer(), disconnect(), their callbacks, rejected frames and poll
\* errors leave it as it was.
C13_Accessors == [][C13_NullUntilAccepted' /\ C13_LatestAccepted]_vars

C13_Witness ==
    /\ op = "releaseDone"
    /\ Emits("disconnect")
    /\ temperature = <<910>>
    /\ co2 = <<600>>
    /\ humidity = null
    /\ seen = {66, 80}

Did(call) == \E i \in 1 .. Len(did) : did[i] = call
DisconnectOps == {"disconnect", "stopPollDone", "releaseDone"}

C14_Order ==
    /\ pendRelease' > pendRelease =>
          /\ op' = "stopPollDone"
          /\ Did("release")'
          /\ \E g \in Gens : stopCbs'[g] = stopCbs[g] - 1 /\ polling'[g] = "idle"
    /\ (isOpen /\ ~isOpen') =>
          /\ op' = "releaseDone"
          /\ Did("close")'
          /\ pendRelease' = pendRelease - 1
    /\ (op' \in DisconnectOps /\ (Emits("disconnect")' \/ cb' # <<>>)) =>
          /\ ~isOpen'
          /\ Did("close")'

\* C14: in disconnect() the interface is released only by the callback of
\* stopPoll, after the polling it stopped has ended; the device is closed
\* only by the callback of that release; and the 'disconnect' event and the
\* caller's callback come only from a handler that has closed the device.
C14_TeardownOrder == [][C14_Order]_vars

C14_Witness ==
    /\ op = "releaseDone"
    /\ did = <<"close">>
    /\ ~isOpen
    /\ emitted = << <<"disconnect">> >>
    /\ cb = <<"ok">>

\* C15: when the release of the interface fails during disconnect(), the
\* failure is emitted as an error event, the device is closed all the same,
\* 'disconnect' is emitted and the callback is called with the error.
C15_ReleaseFailureCompletes ==
    (op = "releaseDone" /\ Emits("error"))
        => /\ ~isOpen
           /\ emitted = <<Error("release failed"), <<"disconnect">> >>
           /\ cb = <<"err">>

\* C16: the callback of stopPoll reattaches the kernel driver exactly when
\* the preceding connect() detached it.
C16_ReattachIffDetached ==
    (op = "stopPollDone" /\ threw # TypeError)
        => (Did("attachKernelDriver") <=> detached)

CallOps ==
    {"connect", "controlTransfer", "transfer", "transferDone", "disconnect",
     "stopPollDone", "releaseDone"}

\* the last handler left the rest of its operation to the callback of an
\* asynchronous call
Continues ==
    /\ threw = null
    /\ did # <<>>
    /\ did[Len(did)] \in {"controlTransfer", "transfer", "stopPoll", "release"}

\* C17: a handler of connect(), transfer() or disconnect() that ends its
\* operation has called the caller's callback exactly once, with an error
\* exactly when the operation failed, and one that leaves the rest to a
\* later callback has not called it.
C17_CallbackExactlyOnce ==
    op \in CallOps =>
        IF Continues
        THEN cb = <<>>
        ELSE /\ Len(cb) = 1
             /\ cb[1] = "err" <=> Emits("error")

\* C18: when the initial read of transfer() fails, the error is emitted and
\* passed to the callback, and nothing is called on the endpoint: polling
\* is not started and no listener is installed.
C18_InitialReadFailed ==
    (op = "transferDone" /\ Emits("error"))
        => /\ emitted = <<Error("transfer failed")>>
           /\ cb = <<"err">>
           /\ threw = null
           /\ did = <<>>

\* C19: a completed poll is decoded once: an accepted frame with a known
\* reading yields one reading event, a poll error one error event.
C19_DecodedOnce ==
    /\ (op = "data" /\ emitted # <<>>) => Len(emitted) = 1
    /\ op = "pollError" => Len(emitted) = 1

\* C20: a completed read that is not 8 bytes long yields no reading event.
C20_WrongLengthNoReading ==
    (op = "data" /\ DOMAIN data # Idx)
        => \A i \in 1 .. Len(emitted) : IsError(emitted[i])

=============================================================================
